---------------------------- MODULE Spec2Model ----------------------------
(* The songs dashboard (src/Python_project.py) as a state machine.          *)
(* One behaviour is one server process: a sequence of render passes, each   *)
(* a run of the script from top to bottom.  A pass calls load_data (served   *)
(* from the st.cache_data store when it holds a result), then runs the       *)
(* branch of the page chosen in the sidebar.                                 *)
(*                                                                           *)
(* Encoding of values:                                                       *)
(*   - an optional value is a sequence of length 0 or 1 (None / Some);      *)
(*     NaN and NaT are the empty sequence;                                   *)
(*   - the text of a Release Date cell is the sequence of its tokens, a      *)
(*     number standing for its decimal digits: "15-07-2011" is               *)
(*     <<15, "-", 7, "-", 2011>>;                                            *)
(*   - a data frame is [columns, rows], rows a sequence of records carrying  *)
(*     their pandas index label in the field "idx".                          *)
EXTENDS Integers, Sequences, FiniteSets, TLC

VARIABLES
    file,                 \* the CSV at the constant path 'songs_2000_2020_50k.csv'
    cache,                \* st.cache_data store of load_data: None or Some(data frame)
    bodyRuns,             \* how many times the body of load_data has executed
    pass,                 \* number of the current render pass
    pc,                   \* "start" (before line 37), "loaded" (line 73), "done"
    page,                 \* value of the sidebar selectbox in this pass
    df,                   \* the script's global df in this pass
    outcome,              \* how the pass ended
    at,                   \* source line at which the pass ended (0 while running)
    messages,             \* user-visible messages of this pass
    selected_genres,      \* multiselect value
    selected_year_range,  \* year slider value
    selected_pop_range,   \* popularity slider value
    data_songs_per_year,  \* Overview: songs-per-year table
    df_sample,            \* Feature page: index labels of the sampled rows
    filtered_df           \* Explorer: the filtered view

vars == <<file, cache, bodyRuns, pass, pc, page, df, outcome, at, messages,
          selected_genres, selected_year_range, selected_pop_range,
          data_songs_per_year, df_sample, filtered_df>>

None == <<>>
Some(x) == <<x>>

-----------------------------------------------------------------------------
(* Bounds of the model *)

MaxRows == 2          \* rows of a small input table with all columns
MaxPartialRows == 1   \* rows of an input table lacking one required column
MaxPasses == 2        \* render passes of one process
LeaveOutWindow == 3   \* a sample leaves out rows among the first LeaveOutWindow only

-----------------------------------------------------------------------------
(* Program constants *)

SampleSize == 5000    \* df.sample(5000)
PopMin == 0           \* popularity slider min_value
PopMax == 100         \* popularity slider max_value
PopDefaultLo == 50    \* popularity slider default value (50, 100)

Pages == {"Overview Dashboard", "Genre Deep Dive",
          "Feature & Popularity Analysis", "Interactive Song Explorer"}

RequiredColumns == {"Title", "Artist", "Genre", "Release Date", "Popularity", "Duration"}

display_cols == {"Title", "Artist", "Genre", "release_year", "Popularity", "Duration"}

-----------------------------------------------------------------------------
(* Input space: what the CSV may contain *)

Genres == {"Pop", "Rock"}
Popularities == {40, 50}
DateTexts == { <<15, "-", 7, "-", 2011>>,     \* 15-07-2011
               <<29, "-", 2, "-", 2012>>,     \* 29-02-2012, a leap day
               <<29, "-", 2, "-", 2011>>,     \* 29-02-2011, no such day
               <<2011, "-", 7, "-", 15>> }    \* 2011-07-15, year first

CsvRow(g, d, p) ==
    [Title |-> "A", Artist |-> "X", Genre |-> g, Popularity |-> p, Duration |-> 200]
        @@ ("Release Date" :> d)

CsvRows == {CsvRow(g, d, p) : g \in Genres, d \in DateTexts, p \in Popularities}

SeqsUpTo(S, n) == UNION {[1..k -> S] : k \in 0..n}

Project(rows, cols) == [i \in DOMAIN rows |-> [c \in cols |-> rows[i][c]]]

FullTables ==
    {[kind |-> "table", columns |-> RequiredColumns, rows |-> rs] :
        rs \in SeqsUpTo(CsvRows, MaxRows)}

PartialTables ==
    {[kind |-> "table", columns |-> RequiredColumns \ {c},
      rows |-> Project(rs, RequiredColumns \ {c})] :
        rs \in SeqsUpTo(CsvRows, MaxPartialRows), c \in RequiredColumns}

\* Large tables around the sample size: one more row, as many, one fewer.
\* Their rows are alike but for the index label.
BigLens == {SampleSize - 1, SampleSize, SampleSize + 1}
BigRow(i) == CsvRow("Pop", <<15, "-", 7, "-", 2011>>, 50)
BigTables ==
    {[kind |-> "table", columns |-> RequiredColumns, rows |-> [i \in 1..n |-> BigRow(i)]] :
        n \in BigLens}

NoTable == [columns |-> {}, rows |-> <<>>]
Files == {[kind |-> "missing"] @@ NoTable, [kind |-> "malformed"] @@ NoTable}
            \cup FullTables \cup PartialTables \cup BigTables

-----------------------------------------------------------------------------
(* pandas / datetime helpers used by load_data *)

IsLeap(y) == (y % 4 = 0 /\ y % 100 # 0) \/ y % 400 = 0

DaysInMonth(m, y) ==
    IF m = 2 THEN (IF IsLeap(y) THEN 29 ELSE 28)
    ELSE IF m \in {4, 6, 9, 11} THEN 30 ELSE 31

\* The same conversion with format='%m-%d-%Y'
to_datetime_month_first(text) ==
    IF Len(text) # 5 THEN None
    ELSE IF text[2] # "-" \/ text[4] # "-" THEN None
    ELSE LET m == text[1]
             d == text[3]
             y == text[5]
         IN  IF /\ d \in 1..31
                /\ m \in 1..12
                /\ y \in 1000..9999
                /\ d <= DaysInMonth(m, y)
             THEN Some([day |-> d, month |-> m, year |-> y])
             ELSE None

\* pd.to_datetime(text, format='%d-%m-%Y', errors='coerce') on one cell:
\* Some(date) when the text is day-month-year of a calendar date, NaT otherwise.
\* (The nanosecond range of Timestamp, years 1677-2262, is not modelled.)
to_datetime(text) ==
    IF Len(text) # 5 THEN None
    ELSE IF text[2] # "-" \/ text[4] # "-" THEN None
    ELSE LET d == text[1]
             m == text[3]
             y == text[5]
         IN  IF /\ d \in 1..31
                /\ m \in 1..12
                /\ y \in 1000..9999        \* %Y: four digits
                /\ d <= DaysInMonth(m, y)
             THEN Some([day |-> d, month |-> m, year |-> y])
             ELSE None

\* Series.dt.year on one cell: NaN for NaT
dt_year(ts) == IF ts = None THEN None ELSE Some(ts[1].year)

\* df.dropna(subset=['release_year']): rows keep their order and index labels
dropna(rows) ==
    LET notna(r) == r.release_year # None
    IN  SelectSeq(rows, notna)

\* pd.read_csv: the table with a RangeIndex
read_csv(f) ==
    [columns |-> f.columns,
     rows |-> [i \in DOMAIN f.rows |-> f.rows[i] @@ ("idx" :> i - 1)]]

\* except FileNotFoundError: st.error(...); st.stop()
except_FileNotFoundError_swallowed ==
    [status |-> "ok", stop |-> 0, message |-> "", df |-> Some([columns |-> {}, rows |-> <<>>])]
except_FileNotFoundError ==
    [status |-> "NotFound", stop |-> 31, df |-> None,
     message |-> "Error: The data file 'songs_2000_2020_50k.csv' was not found."]

\* except Exception as e: st.error(...); st.stop()
except_Exception ==
    [status |-> "LoadError", stop |-> 34, df |-> None,
     message |-> "An error occurred while loading the data"]

\* df['release_datetime'] = pd.to_datetime(df['Release Date'], ...)
add_release_datetime(rows) ==
    [i \in DOMAIN rows |->
        rows[i] @@ ("release_datetime" :> to_datetime(rows[i]["Release Date"]))]

\* df['release_year'] = df['release_datetime'].dt.year
add_release_year(rows) ==
    [i \in DOMAIN rows |-> rows[i] @@ ("release_year" :> dt_year(rows[i].release_datetime))]

\* df['release_year'] = df['release_year'].astype(int)
astype_int(rows) ==
    [i \in DOMAIN rows |-> [rows[i] EXCEPT !.release_year = @[1]]]

\* The body of load_data: status "ok" with the data frame it returns, or the
\* outcome of the except clause that handled the failure.
load_data(f) ==
    IF f.kind = "missing" THEN except_FileNotFoundError
    ELSE IF f.kind = "malformed" THEN except_Exception
    ELSE IF "Release Date" \notin read_csv(f).columns
      THEN except_Exception   \* KeyError: 'Release Date'
    ELSE [status |-> "ok", stop |-> 0, message |-> "",
          df |-> Some([columns |-> read_csv(f).columns \cup {"release_datetime", "release_year"},
                       rows |-> astype_int(dropna(add_release_year(
                                    add_release_datetime(read_csv(f).rows))))])]

\* @st.cache_data around load_data: a stored result is returned without
\* running the body; a result is stored only when the body returns (st.stop
\* and exceptions leave the store as it was).
cached_call_no_memo(c, f) ==
    LET r == load_data(f)
    IN  [ran |-> 1, res |-> r, store |-> IF r.status = "ok" THEN r.df ELSE c]
cached_call(c, f) ==
    IF c # None
      THEN [ran |-> 0, res |-> [status |-> "ok", stop |-> 0, message |-> "", df |-> c], store |-> c]
      ELSE LET r == load_data(f)
           IN  [ran |-> 1, res |-> r, store |-> IF r.status = "ok" THEN r.df ELSE c]

-----------------------------------------------------------------------------
(* Aggregation, filter and sampling *)

RECURSIVE SortedSeq(_)
SortedSeq(S) ==
    IF S = {} THEN <<>>
    ELSE LET m == CHOOSE x \in S : \A y \in S : x <= y
         IN  <<m>> \o SortedSeq(S \ {m})

\* df.groupby('release_year').size().reset_index(name='song_count'):
\* one row per key in ascending order, with the number of rows of the group
size_of_groups(rows, keys) ==
    [k \in DOMAIN keys |->
        [release_year |-> keys[k],
         song_count |-> Cardinality({i \in DOMAIN rows : rows[i].release_year = keys[k]})]]
nunique_genre_of_groups(rows, keys) ==
    [k \in DOMAIN keys |->
        [release_year |-> keys[k],
         song_count |-> Cardinality({rows[i].Genre :
                            i \in {j \in DOMAIN rows : rows[j].release_year = keys[k]}})]]
groupby_nunique(rows) ==
    nunique_genre_of_groups(rows, SortedSeq({rows[i].release_year : i \in DOMAIN rows}))
groupby_size(rows) ==
    size_of_groups(rows, SortedSeq({rows[i].release_year : i \in DOMAIN rows}))

\* The boolean mask of lines 227-233 applied to df
filter_exclusive_upper(rows, genres, yr, pr) ==
    LET keep(r) == /\ r.Genre \in genres
                   /\ r.release_year >= yr[1]
                   /\ r.release_year < yr[2]
                   /\ r.Popularity >= pr[1]
                   /\ r.Popularity < pr[2]
    IN  SelectSeq(rows, keep)
filter_skip_first(rows, genres, yr, pr) ==
    LET keep(r) == /\ r.Genre \in genres
                   /\ r.release_year >= yr[1]
                   /\ r.release_year <= yr[2]
                   /\ r.Popularity >= pr[1]
                   /\ r.Popularity <= pr[2]
        kept == SelectSeq(rows, keep)
    IN  IF kept = <<>> THEN kept ELSE Tail(kept)
filter(rows, genres, yr, pr) ==
    LET keep(r) == /\ r.Genre \in genres
                   /\ r.release_year >= yr[1]
                   /\ r.release_year <= yr[2]
                   /\ r.Popularity >= pr[1]
                   /\ r.Popularity <= pr[2]
    IN  SelectSeq(rows, keep)

RECURSIVE kSubsets(_, _)
kSubsets(S, k) ==
    IF k = 0 THEN {{}}
    ELSE UNION {{T \cup {x} : T \in kSubsets({y \in S : y > x}, k - 1)} : x \in S}

\* DataFrame.sample(n) without replacement: ValueError when n exceeds the
\* number of rows, otherwise any n of the rows, given by their index labels.
\* A sample is the rows minus the ones left out; the model lets the rows
\* left out be any of the first LeaveOutWindow rows.
all_but(labels, rows, n) ==
    {labels \ {rows[o].idx : o \in out} :
        out \in kSubsets({i \in DOMAIN rows : i <= LeaveOutWindow}, Len(rows) - n)}
sample_at_most(rows, n) ==
    [raises |-> FALSE,
     results |-> IF n > Len(rows)
                   THEN {{rows[i].idx : i \in DOMAIN rows}}
                   ELSE all_but({rows[i].idx : i \in DOMAIN rows}, rows, n)]
sample(rows, n) ==
    [raises |-> n > Len(rows),
     results |-> IF n > Len(rows)
                   THEN {}
                   ELSE all_but({rows[i].idx : i \in DOMAIN rows}, rows, n)]

-----------------------------------------------------------------------------
(* The render pass *)

PassLocalsReset ==
    /\ df' = None
    /\ outcome' = "running"
    /\ at' = 0
    /\ messages' = {}
    /\ selected_genres' = {}
    /\ selected_year_range' = None
    /\ selected_pop_range' = None
    /\ data_songs_per_year' = None
    /\ df_sample' = None
    /\ filtered_df' = None

Init ==
    /\ file \in Files
    /\ cache = None
    /\ bodyRuns = 0
    /\ pass = 1
    /\ pc = "start"
    /\ page = "Overview Dashboard"
    /\ df = None
    /\ outcome = "running"
    /\ at = 0
    /\ messages = {}
    /\ selected_genres = {}
    /\ selected_year_range = None
    /\ selected_pop_range = None
    /\ data_songs_per_year = None
    /\ df_sample = None
    /\ filtered_df = None

\* A user interaction starts the next pass: the script runs again from the top.
Rerun ==
    /\ pc = "done"
    /\ pass < MaxPasses
    /\ pass' = pass + 1
    /\ pc' = "start"
    /\ page' \in Pages
    /\ PassLocalsReset
    /\ UNCHANGED <<file, cache, bodyRuns>>

\* Line 37: df = load_data()
LoadData ==
    /\ pc = "start"
    /\ \E k \in {cached_call(cache, file)} :
           /\ bodyRuns' = bodyRuns + k.ran
           /\ cache' = k.store
           /\ IF k.res.status = "ok"
                THEN /\ df' = k.res.df
                     /\ pc' = "loaded"
                     /\ UNCHANGED <<outcome, at, messages>>
                ELSE /\ pc' = "done"
                     /\ outcome' = k.res.status
                     /\ at' = k.res.stop
                     /\ messages' = {k.res.message}
                     /\ UNCHANGED df
    /\ UNCHANGED <<file, pass, page, selected_genres, selected_year_range, selected_pop_range,
                   data_songs_per_year, df_sample, filtered_df>>

\* An uncaught exception ends the pass; Streamlit shows it to the user.
Raise(exc, line) ==
    /\ pc' = "done"
    /\ outcome' = exc
    /\ at' = line
    /\ messages' = {exc}

\* The script ran to its last line.
Rendered ==
    /\ pc' = "done"
    /\ outcome' = "rendered"
    /\ at' = 240
    /\ UNCHANGED messages

\* Lines 73-114
OverviewDashboard ==
    /\ pc = "loaded"
    /\ page = "Overview Dashboard"
    /\ \E d \in {df[1]} :
           IF "Genre" \notin d.columns
             THEN Raise("KeyError", 87) /\ UNCHANGED data_songs_per_year
           ELSE IF "Artist" \notin d.columns
             THEN Raise("KeyError", 88) /\ UNCHANGED data_songs_per_year
           ELSE IF "Popularity" \notin d.columns
             THEN Raise("KeyError", 89) /\ UNCHANGED data_songs_per_year
           ELSE /\ data_songs_per_year' = Some(groupby_size(d.rows))
                /\ Rendered
    /\ UNCHANGED <<file, cache, bodyRuns, pass, page, df, selected_genres, selected_year_range,
                   selected_pop_range, df_sample, filtered_df>>

\* Lines 120-145
GenreDeepDive ==
    /\ pc = "loaded"
    /\ page = "Genre Deep Dive"
    /\ \E d \in {df[1]} :
           IF "Genre" \notin d.columns \/ "Popularity" \notin d.columns
             THEN Raise("KeyError", 125)
             ELSE Rendered
    /\ UNCHANGED <<file, cache, bodyRuns, pass, page, df, selected_genres, selected_year_range,
                   selected_pop_range, data_songs_per_year, df_sample, filtered_df>>

\* Lines 151-183
FeaturePopularityAnalysis ==
    /\ pc = "loaded"
    /\ page = "Feature & Popularity Analysis"
    /\ \E d \in {df[1]} : \E s \in {sample(d.rows, SampleSize)} :
           IF "Popularity" \notin d.columns
             THEN Raise("ValueError", 163) /\ UNCHANGED df_sample  \* chart field not in the data
           ELSE IF s.raises
             THEN Raise("ValueError", 168) /\ UNCHANGED df_sample
           ELSE \E chosen \in s.results :
                  /\ df_sample' = Some(chosen)
                  /\ IF {"Duration", "Title", "Artist"} \subseteq d.columns
                       THEN Rendered
                       ELSE Raise("ValueError", 176)
    /\ UNCHANGED <<file, cache, bodyRuns, pass, page, df, selected_genres, selected_year_range,
                   selected_pop_range, data_songs_per_year, filtered_df>>

Min(S) == CHOOSE x \in S : \A y \in S : x <= y
Max(S) == CHOOSE x \in S : \A y \in S : x >= y

\* Values a range slider over the stops S can return
Ranges(S) == {<<lo, hi>> : lo \in S, hi \in S} \cap {r \in S \X S : r[1] <= r[2]}

\* min_year, max_year of line 206 and the values of the year slider
YearRanges(years) == Ranges(Min(years)..Max(years))

\* Positions the popularity slider is put at
PopStops == {PopMin, PopDefaultLo, PopMax}

\* The warning of line 224 without the st.stop() of line 225
EmptySelection_without_stop ==
    /\ pc' = "done"
    /\ outcome' = "rendered"
    /\ at' = 240
    /\ messages' = {"Please select at least one genre."}

\* st.warning and st.stop() at lines 224-225
EmptySelection ==
    /\ pc' = "done"
    /\ outcome' = "EmptySelection"
    /\ at' = 225
    /\ messages' = {"Please select at least one genre."}

\* Lines 189-240, with the boolean mask written back to df
InteractiveSongExplorer_in_place ==
    /\ pc = "loaded"
    /\ page = "Interactive Song Explorer"
    /\ \E d \in {df[1]} :
           IF "Genre" \notin d.columns
             THEN /\ Raise("KeyError", 198)
                  /\ UNCHANGED <<df, selected_genres, selected_year_range,
                                 selected_pop_range, filtered_df>>
           ELSE \E g \in SUBSET {d.rows[i].Genre : i \in DOMAIN d.rows} :
             /\ selected_genres' = g
             /\ IF d.rows = <<>>
                  THEN /\ Raise("ValueError", 206)
                       /\ UNCHANGED <<df, selected_year_range, selected_pop_range, filtered_df>>
                ELSE \E yr \in YearRanges({d.rows[i].release_year : i \in DOMAIN d.rows}),
                        pr \in Ranges(PopStops) :
                  /\ selected_year_range' = yr
                  /\ selected_pop_range' = pr
                  /\ IF g = {}
                       THEN EmptySelection /\ UNCHANGED <<df, filtered_df>>
                     ELSE IF "Popularity" \notin d.columns
                       THEN Raise("KeyError", 231) /\ UNCHANGED <<df, filtered_df>>
                     ELSE /\ filtered_df' = Some(filter(d.rows, g, yr, pr))
                          /\ df' = Some([d EXCEPT !.rows = filter(d.rows, g, yr, pr)])
                          /\ IF display_cols \subseteq d.columns
                               THEN Rendered
                               ELSE Raise("KeyError", 239)
    /\ UNCHANGED <<file, cache, bodyRuns, pass, page, data_songs_per_year, df_sample>>

\* Lines 189-240
InteractiveSongExplorer ==
    /\ pc = "loaded"
    /\ page = "Interactive Song Explorer"
    /\ \E d \in {df[1]} :
           IF "Genre" \notin d.columns
             THEN /\ Raise("KeyError", 198)
                  /\ UNCHANGED <<selected_genres, selected_year_range,
                                 selected_pop_range, filtered_df>>
           ELSE \E g \in SUBSET {d.rows[i].Genre : i \in DOMAIN d.rows} :
             /\ selected_genres' = g
             /\ IF d.rows = <<>>
                  THEN /\ Raise("ValueError", 206)   \* int(NaN): min of no rows
                       /\ UNCHANGED <<selected_year_range, selected_pop_range, filtered_df>>
                ELSE \E yr \in YearRanges({d.rows[i].release_year : i \in DOMAIN d.rows}),
                        pr \in Ranges(PopStops) :
                  /\ selected_year_range' = yr
                  /\ selected_pop_range' = pr
                  /\ IF g = {}
                       THEN EmptySelection /\ UNCHANGED filtered_df
                     ELSE IF "Popularity" \notin d.columns
                       THEN Raise("KeyError", 231) /\ UNCHANGED filtered_df
                     ELSE /\ filtered_df' = Some(filter(d.rows, g, yr, pr))
                          /\ IF display_cols \subseteq d.columns
                               THEN Rendered
                               ELSE Raise("KeyError", 239)
    /\ UNCHANGED <<file, cache, bodyRuns, pass, page, df, data_songs_per_year, df_sample>>

Next ==
    \/ Rerun
    \/ LoadData
    \/ OverviewDashboard
    \/ GenreDeepDive
    \/ FeaturePopularityAnalysis
    \/ InteractiveSongExplorer

Spec == Init /\ [][Next]_vars

-----------------------------------------------------------------------------
(* Helpers of the properties *)

Range(s) == {s[i] : i \in DOMAIN s}

Labels(rows) == {rows[i].idx : i \in DOMAIN rows}

\* Month lengths of year y, January first
MonthLengths(y) ==
    <<31, IF y % 400 = 0 \/ (y % 4 = 0 /\ y % 100 # 0) THEN 29 ELSE 28,
      31, 30, 31, 30, 31, 31, 30, 31, 30, 31>>

\* The text reads day-month-year, with a four-digit year, and names a day
\* of the calendar.
IsDayMonthYear(text) ==
    /\ Len(text) = 5
    /\ text[2] = "-" /\ text[4] = "-"
    /\ text[5] \in 1000..9999
    /\ text[3] \in 1..12
    /\ text[1] \in 1..MonthLengths(text[5])[text[3]]

RECURSIVE SumCounts(_)
SumCounts(t) == IF t = <<>> THEN 0 ELSE Head(t).song_count + SumCounts(Tail(t))

Matches(r, genres, yr, pr) ==
    /\ r.Genre \in genres
    /\ yr[1] <= r.release_year /\ r.release_year <= yr[2]
    /\ pr[1] <= r.Popularity /\ r.Popularity <= pr[2]

\* The rows of out are exactly the rows of table whose date reads
\* day-month-year, in the order of the table, each with the year of its date.
IsLoadOf(out, outLabels, table, columns) ==
    /\ \A j \in DOMAIN out :
          /\ out[j].release_year \in 1000..9999
          /\ out[j].idx + 1 \in DOMAIN table
          /\ IsDayMonthYear(table[out[j].idx + 1]["Release Date"])
          /\ out[j].release_year = table[out[j].idx + 1]["Release Date"][5]
          /\ [c \in columns |-> out[j][c]] = table[out[j].idx + 1]
    /\ \A j \in DOMAIN out : j > 1 => out[j - 1].idx < out[j].idx
    /\ outLabels = {i - 1 : i \in {k \in DOMAIN table : IsDayMonthYear(table[k]["Release Date"])}}

\* view holds exactly the rows of base that match, and only rows of base
IsFilterOf(view, base, baseRows, genres, yr, pr) ==
    /\ Labels(view) = {base[i].idx : i \in {k \in DOMAIN base : Matches(base[k], genres, yr, pr)}}
    /\ \A j \in DOMAIN view : view[j] \in baseRows

IsCountByYear(t, rows, years) ==
    /\ {t[k].release_year : k \in DOMAIN t} = years
    /\ Len(t) = Cardinality(years)
    /\ SumCounts(t) = Len(rows)

-----------------------------------------------------------------------------
(* Properties *)

\* C1: whatever the input table, the dataset load_data returns holds exactly
\* the input rows whose Release Date parses as day-month-year, in input
\* order, each with an integer four-digit release_year equal to the year of
\* that date; rows whose date does not parse are absent, no row is added.
LoadKeepsExactlyTheParsedRows ==
    pc = "loaded" =>
        IsLoadOf(df[1].rows, Labels(df[1].rows), file.rows, file.columns)

LoadDroppedSomeKeptSome ==
    /\ pc = "loaded"
    /\ Len(df[1].rows) >= 1
    /\ Len(df[1].rows) < Len(file.rows)

\* C2: on the Explorer page a row of the loaded dataset is in the filtered
\* view iff its Genre is selected and its release_year and Popularity lie in
\* the selected ranges, bounds included; the view holds only dataset rows.
FilteredViewIsExactlyTheMatches ==
    filtered_df # None =>
        IsFilterOf(filtered_df[1], df[1].rows, Range(df[1].rows),
                   selected_genres, selected_year_range, selected_pop_range)

FilterKeptSomeDroppedSome ==
    /\ filtered_df # None
    /\ Len(filtered_df[1]) >= 1
    /\ Len(filtered_df[1]) < Len(df[1].rows)
    /\ \E i \in DOMAIN df[1].rows :
          /\ df[1].rows[i].Genre \in selected_genres
          /\ df[1].rows[i].Popularity < selected_pop_range[1]
    /\ \E i \in DOMAIN df[1].rows :
          /\ df[1].rows[i].Popularity = selected_pop_range[2]
          /\ df[1].rows[i].release_year = selected_year_range[2]
          /\ df[1].rows[i].Genre \in selected_genres

MissingFileHaltsThePass ==
    file.kind = "missing" =>
        /\ pc # "loaded"
        /\ df = None /\ cache = None
        /\ data_songs_per_year = None /\ df_sample = None /\ filtered_df = None
        /\ pc = "done" =>
              /\ outcome = "NotFound"
              /\ at = 31
              /\ messages = {"Error: The data file 'songs_2000_2020_50k.csv' was not found."}

MissingFileStoppedALaterPass ==
    /\ file.kind = "missing"
    /\ pc = "done"
    /\ pass >= 2
    /\ page = "Interactive Song Explorer"

\* C5: a file lacking one of the required columns ends the pass with the
\* load error of load_data, and no dataset lacking a column is returned.
MissingColumnIsALoadError ==
    (file.kind = "table" /\ ~(RequiredColumns \subseteq file.columns) /\ pc = "done") =>
        /\ outcome = "LoadError"
        /\ df = None
        /\ cache = None

\* C6: filtering the view the filter produced, with the same selection,
\* returns the same rows in the same order.
FilterIsIdempotent ==
    filtered_df # None =>
        filter(filtered_df[1], selected_genres, selected_year_range, selected_pop_range)
            = filtered_df[1]

RefilteredANarrowedView ==
    /\ filtered_df # None
    /\ Len(filtered_df[1]) >= 1
    /\ Len(filtered_df[1]) < Len(df[1].rows)
    /\ selected_genres # {df[1].rows[i].Genre : i \in DOMAIN df[1].rows}

\* C7: the songs-per-year table has exactly one row per distinct
\* release_year of the dataset and its song_count values sum to the number
\* of rows of the dataset.
SongsPerYearPartitionsTheDataset ==
    data_songs_per_year # None =>
        IsCountByYear(data_songs_per_year[1], df[1].rows,
                      {df[1].rows[i].release_year : i \in DOMAIN df[1].rows})

CountedSeveralSongsOfOneYear ==
    /\ data_songs_per_year # None
    /\ Len(data_songs_per_year[1]) < Len(df[1].rows)

BaseDatasetIsNeverChanged ==
    [][/\ cache # None => cache' = cache
       /\ pc = "start" => (pc' = "loaded" => df' = cache')
       /\ pc = "loaded" => df' = df]_vars

FilteredPassLeftBaseIntact ==
    /\ pc = "done"
    /\ pass >= 2
    /\ page = "Interactive Song Explorer"
    /\ filtered_df # None
    /\ Len(filtered_df[1]) < Len(df[1].rows)
    /\ df = cache

\* C10: sampling more rows than the dataset has raises instead of returning
\* fewer rows: the Feature page ends in an error, with no sample, whenever
\* the dataset has fewer than 5000 rows (at the sample call of line 168 when
\* the pass gets there); a sample the page takes holds exactly 5000 distinct
\* rows of the dataset, and the call yields one whenever there are 5000 rows.
SampleIsExactOrRaises ==
    (pc = "done" /\ page = "Feature & Popularity Analysis" /\ df # None) =>
        /\ Len(df[1].rows) < SampleSize =>
              /\ outcome = "ValueError"
              /\ at <= 168
              /\ df_sample = None
        /\ at = 168 => Len(df[1].rows) < SampleSize
        /\ (at >= 168 /\ Len(df[1].rows) >= SampleSize) => df_sample # None
        /\ df_sample # None =>
              /\ Cardinality(df_sample[1]) = SampleSize
              /\ df_sample[1] \subseteq Labels(df[1].rows)

SampledFromALargerDataset ==
    /\ pc = "done"
    /\ page = "Feature & Popularity Analysis"
    /\ df_sample # None
    /\ Len(df[1].rows) > SampleSize
    /\ outcome = "rendered"

=============================================================================
